---- MODULE Spec2Model ----
(***************************************************************************)
(* Model of src/main.py: per-page extraction of line items from a table    *)
(* grid or from flowed text, and the aggregation and sort of the raw       *)
(* records into the master list.                                           *)
(*                                                                         *)
(* Python strings are TLA+ strings; a character is a string of length 1.   *)
(* Python None (an absent cell) is the reserved string NoneCell; an absent *)
(* table (None) and an empty table ([]) are both << >>, as `not table`     *)
(* treats them alike.  A float is an integer number of hundredths.         *)
(***************************************************************************)
EXTENDS Integers, Sequences, FiniteSets, TLC

(***************************************************************************)
(* Characters and strings                                                  *)
(***************************************************************************)

\* U+00A0 and U+2009, the two characters normalize_text replaces.  U+2009 is
\* outside the character set of TLA+ strings: it is written as the form feed,
\* which str.split and str.strip treat as whitespace just as they do U+2009.
NBSP == " "

THINSP == "\f"

CodeOrder ==
    "\t\n \"()+-./0123456789ABCDEFGHIJKLMNOPQRSTUVWXYZabcdefghijklmnopqrstuvwxyz|"
    \o NBSP \o "¼½¾" \o THINSP

UpperChars == "ABCDEFGHIJKLMNOPQRSTUVWXYZ"
LowerChars == "abcdefghijklmnopqrstuvwxyz"
Digits == "0123456789"

NoneCell == "\\None"

Char(s, i) == SubSeq(s, i, i)

\* index of character c in string s, 0 when absent (str.find + 1)
RECURSIVE IndexFrom(_, _, _)
IndexFrom(s, c, i) ==
    IF i > Len(s) THEN 0
    ELSE IF Char(s, i) = c THEN i
    ELSE IndexFrom(s, c, i + 1)

IndexOf(s, c) == IndexFrom(s, c, 1)

\* str.isspace() for one character: tab, newline, space, NBSP, thin space
IsSpace(c) == c \in {"\t", "\n", " ", NBSP, THINSP}

IsDigit(c) == IndexOf(Digits, c) > 0

LowerChar(c) ==
    LET k == IndexOf(UpperChars, c)
    IN  IF k = 0 THEN c ELSE Char(LowerChars, k)

UpperChar(c) ==
    LET k == IndexOf(LowerChars, c)
    IN  IF k = 0 THEN c ELSE Char(UpperChars, k)

\* str.lower()
RECURSIVE Lower(_)
Lower(s) == IF s = "" THEN "" ELSE LowerChar(Char(s, 1)) \o Lower(Tail(s))

\* str.upper()
RECURSIVE Upper(_)
Upper(s) == IF s = "" THEN "" ELSE UpperChar(Char(s, 1)) \o Upper(Tail(s))

\* str.startswith(k)
StartsWith(s, k) == Len(k) <= Len(s) /\ SubSeq(s, 1, Len(k)) = k

\* the Python test `sub in s`
Contains(sub, s) ==
    \E i \in 1..(Len(s) - Len(sub) + 1) : SubSeq(s, i, i + Len(sub) - 1) = sub

\* str.strip()
RECURSIVE LStrip(_)
LStrip(s) == IF s # "" /\ IsSpace(Char(s, 1)) THEN LStrip(Tail(s)) ELSE s

RECURSIVE RStrip(_)
RStrip(s) ==
    IF s # "" /\ IsSpace(Char(s, Len(s)))
    THEN RStrip(SubSeq(s, 1, Len(s) - 1)) ELSE s

Strip(s) == RStrip(LStrip(s))

\* str.split(): the maximal runs of non-whitespace characters, in order.
\* cur is the token being read, acc the tokens read so far.
RECURSIVE SplitFrom(_, _, _, _)
SplitFrom(s, i, cur, acc) ==
    IF i > Len(s)
    THEN IF cur = "" THEN acc ELSE Append(acc, cur)
    ELSE IF IsSpace(Char(s, i))
         THEN SplitFrom(s, i + 1, "", IF cur = "" THEN acc ELSE Append(acc, cur))
         ELSE SplitFrom(s, i + 1, cur \o Char(s, i), acc)

Split(s) == SplitFrom(s, 1, "", << >>)

\* sep.join(parts)
RECURSIVE Join(_, _)
Join(sep, parts) ==
    IF parts = << >> THEN ""
    ELSE IF Len(parts) = 1 THEN parts[1]
    ELSE parts[1] \o sep \o Join(sep, Tail(parts))

\* str.replace(old, new) for a one-character old
RECURSIVE ReplaceChar(_, _, _)
ReplaceChar(s, old, new) ==
    IF s = "" THEN ""
    ELSE (IF Char(s, 1) = old THEN new ELSE Char(s, 1))
         \o ReplaceChar(Tail(s), old, new)

\* str.split(sep)[0] for a one-character sep: the text before the first sep
BeforeFirst(s, sep) ==
    LET k == IndexOf(s, sep)
    IN  IF k = 0 THEN s ELSE SubSeq(s, 1, k - 1)

\* str.splitlines() on "\n": no empty last line after a trailing newline
RECURSIVE SplitLinesFrom(_, _, _, _)
SplitLinesFrom(s, i, cur, acc) ==
    IF i > Len(s)
    THEN IF cur = "" THEN acc ELSE Append(acc, cur)
    ELSE IF Char(s, i) = "\n"
         THEN SplitLinesFrom(s, i + 1, "", Append(acc, cur))
         ELSE SplitLinesFrom(s, i + 1, cur \o Char(s, i), acc)

SplitLines(s) == SplitLinesFrom(s, 1, "", << >>)

\* s < t in code point order
RECURSIVE StrLess(_, _)
StrLess(s, t) ==
    IF t = "" THEN FALSE
    ELSE IF s = "" THEN TRUE
    ELSE LET a == IndexOf(CodeOrder, Char(s, 1))
             b == IndexOf(CodeOrder, Char(t, 1))
         IN  IF a # b THEN a < b ELSE StrLess(Tail(s), Tail(t))

StrLeq(s, t) == s = t \/ StrLess(s, t)

(***************************************************************************)
(* float(s) for the decimal literals [sign] digits [. digits] with at      *)
(* least one digit; the value is kept in hundredths.  IsFloat(s) is        *)
(* "float(s) does not raise ValueError".                                   *)
(***************************************************************************)
RECURSIVE AllDigits(_)
AllDigits(s) == s = "" \/ (IsDigit(Char(s, 1)) /\ AllDigits(Tail(s)))

RECURSIVE DigitsValue(_, _)
DigitsValue(s, acc) ==
    IF s = "" THEN acc
    ELSE DigitsValue(Tail(s), 10 * acc + IndexOf(Digits, Char(s, 1)) - 1)

Unsigned(s) == IF s # "" /\ Char(s, 1) \in {"-", "+"} THEN Tail(s) ELSE s

IntPart(s) ==
    LET dot == IndexOf(Unsigned(s), ".")
    IN  IF dot = 0 THEN Unsigned(s) ELSE SubSeq(Unsigned(s), 1, dot - 1)

FracPart(s) ==
    LET dot == IndexOf(Unsigned(s), ".")
    IN  IF dot = 0 THEN "" ELSE SubSeq(Unsigned(s), dot + 1, Len(Unsigned(s)))

IsFloat(s) ==
    /\ AllDigits(IntPart(s))
    /\ AllDigits(FracPart(s))
    /\ Len(IntPart(s)) + Len(FracPart(s)) > 0

Float(s) ==
    LET mag == 100 * DigitsValue(IntPart(s), 0)
               + DigitsValue(SubSeq(FracPart(s) \o "00", 1, 2), 0)
    IN  IF s # "" /\ Char(s, 1) = "-" THEN 0 - mag ELSE mag

(***************************************************************************)
(* Helpers of main.py                                                      *)
(***************************************************************************)
HEADER_HINTS == {"quantity", "units", "size", "description"}

NORMALIZE_SPACES == TRUE

\* normalize_text(s)
normalize_text(s) ==
    IF s = NoneCell THEN ""
    ELSE LET s1 == Strip(s)
             s2 == IF NORMALIZE_SPACES THEN Join(" ", Split(s1)) ELSE s1
             s3 == ReplaceChar(ReplaceChar(s2, THINSP, " "), NBSP, " ")
         IN  Join(" ", Split(s3))

\* make_item_key(size, description, units)
make_item_key(size, description, units) ==
    LET size_n  == Lower(normalize_text(size))
        desc_n  == Lower(normalize_text(description))
        units_n == Lower(normalize_text(units))
    IN  units_n \o " | " \o size_n \o " | " \o desc_n

\* the dict appended to rows by both extractors
Record(source, qty, units, size, desc) ==
    [source |-> source, quantity |-> qty, units |-> units, size |-> size,
     description |-> desc, item_key |-> make_item_key(size, desc, units)]

(***************************************************************************)
(* extract_rows_from_table.  Columns are numbered from 1; find_col is 0    *)
(* where the code returns None.                                            *)
(***************************************************************************)
\* header = [normalize_text(x).lower() for x in table[0]]
Header(table) == [i \in 1..Len(table[1]) |-> Lower(normalize_text(table[1][i]))]

\* any(h in HEADER_HINTS for h in header)
HeaderLooksValid(header) == \E i \in 1..Len(header) : header[i] \in HEADER_HINTS

\* find_col(name): the first header cell that contains name
find_col(header, name) ==
    IF \E i \in 1..Len(header) : Contains(name, header[i])
    THEN CHOOSE i \in 1..Len(header) :
            /\ Contains(name, header[i])
            /\ \A j \in 1..(i - 1) : ~Contains(name, header[j])
    ELSE 0

Max(S) == CHOOSE m \in S : \A n \in S : n <= m

\* one iteration of `for r in table[1:]`: the record appended, or nothing
TableRow(r, idx_qty, idx_units, idx_size, idx_desc, source_name) ==
    IF r = << >> \/ Len(r) < Max({idx_qty, idx_units, idx_size, idx_desc})
    THEN << >>
    ELSE LET qty_raw == normalize_text(r[idx_qty])
             units   == normalize_text(r[idx_units])
             size    == normalize_text(r[idx_size])
             desc    == normalize_text(r[idx_desc])
         IN  IF qty_raw = "" \/ units = "" \/ desc = "" THEN << >>
             ELSE IF ~IsFloat(qty_raw) THEN << >>
             ELSE << Record(source_name, Float(qty_raw), units, size, desc) >>

RECURSIVE TableRowsFrom(_, _, _, _)
TableRowsFrom(table, k, header, source_name) ==
    IF k > Len(table) THEN << >>
    ELSE TableRow(table[k], find_col(header, "quantity"), find_col(header, "units"),
                  find_col(header, "size"), find_col(header, "description"),
                  source_name)
         \o TableRowsFrom(table, k + 1, header, source_name)

extract_rows_from_table(table, source_name) ==
    IF table = << >> \/ Len(table) < 2 THEN << >>
    ELSE IF ~HeaderLooksValid(Header(table)) THEN << >>
    ELSE IF 0 \in {find_col(Header(table), "quantity"), find_col(Header(table), "units"),
                   find_col(Header(table), "size"), find_col(Header(table), "description")}
         THEN << >>
    ELSE TableRowsFrom(table, 2, Header(table), source_name)

(***************************************************************************)
(* stitch_wrapped_lines.  Lines are numbered from 1.                       *)
(***************************************************************************)
\* IsWrapped without the test of the next line: a blank next line is merged
IsWrapped_AnyNextLine(lines, i) ==
    LET cur   == normalize_text(lines[i])
        parts == Split(cur)
    IN  /\ Len(parts) = 2
        /\ IsFloat(parts[1])
        /\ Upper(parts[2]) \in {"EA", "LF"}
        /\ i + 1 <= Len(lines)

\* the test that sends the loop body to `i += 2`
IsWrapped(lines, i) ==
    LET cur   == normalize_text(lines[i])
        parts == Split(cur)
    IN  /\ Len(parts) = 2
        /\ IsFloat(parts[1])
        /\ Upper(parts[2]) \in {"EA", "LF"}
        /\ i + 1 <= Len(lines)
        /\ normalize_text(lines[i + 1]) # ""

\* one iteration of `while i < len(lines)`: the new <<i, stitched>>
StitchStep(lines, i, stitched) ==
    LET cur == normalize_text(lines[i])
    IN  IF cur = "" THEN << i + 1, stitched >>
        ELSE IF IsWrapped(lines, i)
        THEN << i + 2, Append(stitched, cur \o " " \o normalize_text(lines[i + 1])) >>
        ELSE << i + 1, Append(stitched, cur) >>

RECURSIVE StitchFrom(_, _, _)
StitchFrom(lines, i, stitched) ==
    IF i > Len(lines) THEN stitched
    ELSE LET step == StitchStep(lines, i, stitched)
         IN  StitchFrom(lines, step[1], step[2])

stitch_wrapped_lines(lines) == StitchFrom(lines, 1, << >>)

(***************************************************************************)
(* extract_rows_from_text                                                  *)
(***************************************************************************)
DESC_START_TOKENS ==
    << "type", "propress", "wrot", "threaded", "butterfly", "bolts",
       "valve", "adapter", "coupling", "cap", "tee", "ell", "reducer",
       "flange", "plug", "tube", "street", "measurement/balancing" >>

\* IsDescStart without the startswith alternative
IsDescStart_ExactOnly(t) ==
    \E n \in 1..Len(DESC_START_TOKENS) : Lower(t) = DESC_START_TOKENS[n]

\* any(tt == k or tt.startswith(k) for k in DESC_START_TOKENS), tt = t.lower()
IsDescStart(t) ==
    LET tt == Lower(t)
    IN  \E n \in 1..Len(DESC_START_TOKENS) :
            \/ tt = DESC_START_TOKENS[n]
            \/ StartsWith(tt, DESC_START_TOKENS[n])

\* find_desc_start_index(tokens): the number of tokens before the first
\* marker (the code's index, from 0), or -1 where the code returns None
RECURSIVE FindDescFrom(_, _)
FindDescFrom(tokens, i) ==
    IF i > Len(tokens) THEN 0 - 1
    ELSE IF IsDescStart(tokens[i]) THEN i - 1
    ELSE FindDescFrom(tokens, i + 1)

find_desc_start_index(tokens) == FindDescFrom(tokens, 1)

\* one iteration of `for line in lines`: the record appended, or nothing
TextLine(line0, source_name) ==
    LET line  == normalize_text(line0)
        low   == Lower(line)
        parts == Split(line)
    IN  IF line = "" THEN << >>
        ELSE IF StartsWith(low, "dkc -") \/ StartsWith(low, "quantity units") THEN << >>
        ELSE IF Len(parts) < 4 THEN << >>
        ELSE IF ~IsFloat(parts[1]) THEN << >>
        ELSE IF Upper(normalize_text(parts[2])) \notin {"EA", "LF"} THEN << >>
        ELSE LET units      == normalize_text(parts[2])
                 remainder  == SubSeq(parts, 3, Len(parts))
                 desc_start == find_desc_start_index(remainder)
                 size == IF desc_start = 0 - 1 \/ desc_start = 0 THEN ""
                         ELSE normalize_text(Join(" ", SubSeq(remainder, 1, desc_start)))
                 desc == IF desc_start = 0 - 1 \/ desc_start = 0
                         THEN normalize_text(Join(" ", remainder))
                         ELSE normalize_text(Join(" ",
                                  SubSeq(remainder, desc_start + 1, Len(remainder))))
             IN  IF desc = "" THEN << >>
                 ELSE << Record(source_name, Float(parts[1]), units, size, desc) >>

RECURSIVE TextRowsFrom(_, _, _)
TextRowsFrom(lines, k, source_name) ==
    IF k > Len(lines) THEN << >>
    ELSE TextLine(lines[k], source_name) \o TextRowsFrom(lines, k + 1, source_name)

extract_rows_from_text(text, source_name) ==
    IF text = "" THEN << >>
    ELSE TextRowsFrom(stitch_wrapped_lines(SplitLines(text)), 1, source_name)

(***************************************************************************)
(* extract_pdf: one iteration of `for page_num, page in enumerate(...)`.   *)
(* A page is [table |-> the grid or << >>, text |-> the text or ""].       *)
(***************************************************************************)
\* NeedsTextFallback with the threshold off by one: only an empty table result
NeedsTextFallback_OnlyWhenEmpty(table_rows) == Len(table_rows) < 1

\* `if len(table_rows) < 2`
NeedsTextFallback(table_rows) == Len(table_rows) < 2

(***************************************************************************)
(* size_to_float.  SizeHead is the string left after the split on "x" and  *)
(* strip(); s.split()[0] raises IndexError when it has no token.           *)
(***************************************************************************)
SizeHead(size) ==
    LET s == ReplaceChar(ReplaceChar(ReplaceChar(size, "¼", ".25"), "½", ".5"), "¾", ".75")
    IN  Strip(BeforeFirst(s, "x"))

SizeRaises(size) == size # "" /\ Split(SizeHead(size)) = << >>

size_to_float(size) ==
    IF size = "" THEN 0
    ELSE IF IsFloat(Split(SizeHead(size))[1]) THEN Float(Split(SizeHead(size))[1])
    ELSE 0

(***************************************************************************)
(* main: aggregation and sort                                              *)
(***************************************************************************)
\* the groupby columns of one raw record
GroupKey(r) == << r.item_key, r.units, r.size, r.description >>

\* tuple order of the group keys (groupby sorts its groups)
RECURSIVE KeyLess(_, _)
KeyLess(a, b) ==
    IF a = << >> THEN FALSE
    ELSE IF a[1] # b[1] THEN StrLess(a[1], b[1])
    ELSE KeyLess(Tail(a), Tail(b))

RECURSIVE SumQuantity(_, _)
SumQuantity(rows, key) ==
    IF rows = << >> THEN 0
    ELSE (IF GroupKey(Head(rows)) = key THEN Head(rows).quantity ELSE 0)
         + SumQuantity(Tail(rows), key)

MasterRow(rows, key) ==
    [quantity |-> SumQuantity(rows, key), units |-> key[2], size |-> key[3],
     description |-> key[4], item_key |-> key[1]]

RECURSIVE GroupsInOrder(_, _)
GroupsInOrder(rows, keys) ==
    IF keys = {} THEN << >>
    ELSE LET least == CHOOSE a \in keys : \A b \in keys \ {a} : KeyLess(a, b)
         IN  << MasterRow(rows, least) >> \o GroupsInOrder(rows, keys \ {least})

\* df.groupby([...], as_index=False).agg(quantity=("quantity", "sum"))
GroupBy(rows) == GroupsInOrder(rows, {GroupKey(rows[n]) : n \in 1..Len(rows)})

\* unit_order.get(u, 99) of the upper-cased units
unit_sort(units) ==
    IF Upper(units) = "LF" THEN 0 ELSE IF Upper(units) = "EA" THEN 1 ELSE 99

\* SortLess with the size compared as text instead of as a number
SortLess_SizeAsText(a, b) ==
    IF unit_sort(a.units) # unit_sort(b.units)
    THEN unit_sort(a.units) < unit_sort(b.units)
    ELSE IF a.description # b.description
    THEN StrLess(a.description, b.description)
    ELSE StrLess(a.size, b.size)

\* the order of sort_values(by=["_unit_sort", "description", "_size_sort"])
SortLess(a, b) ==
    IF unit_sort(a.units) # unit_sort(b.units)
    THEN unit_sort(a.units) < unit_sort(b.units)
    ELSE IF a.description # b.description
    THEN StrLess(a.description, b.description)
    ELSE size_to_float(a.size) < size_to_float(b.size)

\* stable insertion: x goes before the first row that is greater than x
RECURSIVE InsertSorted(_, _)
InsertSorted(sorted, x) ==
    IF sorted = << >> THEN << x >>
    ELSE IF SortLess(x, Head(sorted)) THEN << x >> \o sorted
    ELSE << Head(sorted) >> \o InsertSorted(Tail(sorted), x)

RECURSIVE SortFrom(_, _, _)
SortFrom(m, n, sorted) ==
    IF n > Len(m) THEN sorted
    ELSE SortFrom(m, n + 1, InsertSorted(sorted, m[n]))

sort_values(m) == SortFrom(m, 1, << >>)

(***************************************************************************)
(* Inputs.  MaxDocs bounds the number of PDFs found in the input folder;   *)
(* MaxLines bounds the lines of a page text given to the text extractor.   *)
(***************************************************************************)
MaxDocs == 2

MaxLines == 3

TableGood ==
    << << "Quantity", "Units", "Size", "Description" >>,
       << "3", "EA", "1/2\"", "Ball  Valve" >>,
       << "10", "LF", "2", "Copper Tube" >>,
       << "4", "LF", "10", "Copper Tube" >>,
       << "x", "EA", "1", "Tee" >>,
       << "2", "XX", "", "Hanger" >> >>

TableOne ==
    << << "quantity", "units", "size", "description" >>,
       << "2", "EA", "1", "Tee" >> >>

TableLoose ==
    << << "Quantity (pcs)", "Units of measure", "Size (in)", "Item description" >>,
       << "3", "EA", "1", "Tee" >> >>

PageSamples ==
    [good   |-> [table |-> TableGood,  text |-> "Material List\n3 EA 1/2\" Ball Valve"],
     weak   |-> [table |-> TableOne,   text |-> "2 EA 1 Tee\n3 ea 1 Tee"],
     loose  |-> [table |-> TableLoose, text |-> ""],
     flowed |-> [table |-> << >>,
                 text  |-> "1 EA 2 Tee\n6 EA\n½ tee\n2 LF 1 Type L Tube\n5 EA 2 tee"],
     credit |-> [table |-> << >>,      text |-> "-3 EA 2 Cap"],
     close  |-> [table |-> << >>,      text |-> "4 EA x close Tee"],
     noise  |-> [table |-> << >>,
                 text  |-> "DKC - Project 12\nQuantity Units Size Description"]]

\* the documents a run may find: each is the sequence of its pages
DocSamples ==
    { << PageSamples.good >>,
      << PageSamples.weak, PageSamples.flowed >>,
      << PageSamples.flowed, PageSamples.good >>,
      << PageSamples.loose >>,
      << PageSamples.credit >>,
      << PageSamples.close >>,
      << PageSamples.noise, PageSamples.noise >> }

LineSamples ==
    { "", "2 EA", "x EA", "1½ x Caps", "3 ea 1\" Ball Valve",
      "4 LF Tee  Red.", "6 EA 2 Nipple" }

SeqsUpTo(S, n) == UNION { [1..m -> S] : m \in 0..n }

\* pdf_path.stem of the n-th file of sorted(INPUT_DIR.glob("*.pdf"))
Stem(n) == "doc" \o Char(Digits, n + 1)

(***************************************************************************)
(* State.  The run of main():                                              *)
(*   pc, input_exists, pdf_files, output_dir, doc, page_num, all_rows,     *)
(*   table_rows, text_ran, text_rows, rows, df, master, written, error,    *)
(*   started, finished.                                                    *)
(* One call of extract_rows_from_text on its own:                          *)
(*   tpc, text, raw_lines, i, stitched, k, line_rows, out_rows, where      *)
(*   line_rows is what the last iteration of the line loop appended.       *)
(***************************************************************************)
VARIABLES
    pc,            \* where main() is
    input_exists,  \* INPUT_DIR.exists()
    pdf_files,     \* the documents of sorted(INPUT_DIR.glob("*.pdf"))
    output_dir,    \* OUTPUT_DIR has been created
    doc,           \* number of the document being read, 0 before the first
    page_num,      \* number of the next page of the document
    all_rows,      \* extract_pdf's all_rows
    table_rows,    \* table_rows of the last page read
    text_ran,      \* extract_rows_from_text was called for the last page read
    text_rows,     \* text_rows of the last page read
    rows,          \* main's rows
    df,            \* the RawExtract frame
    master,        \* the Master frame
    written,       \* OUTPUT_FILE has been written
    error,         \* the exception that ended the run, "" if none
    started,       \* the documents whose extraction has begun
    finished,      \* the documents whose extraction has returned
    tpc, text, raw_lines, i, stitched, k, line_rows, out_rows

mainVars ==
    << pc, input_exists, pdf_files, output_dir, doc, page_num, all_rows,
       table_rows, text_ran, text_rows, rows, df, master, written, error,
       started, finished >>

textVars == << tpc, text, raw_lines, i, stitched, k, line_rows, out_rows >>

vars == << mainVars, textVars >>

MainStart ==
    /\ pc = "start"
    /\ output_dir = FALSE
    /\ doc = 0
    /\ page_num = 0
    /\ all_rows = << >>
    /\ table_rows = << >>
    /\ text_ran = FALSE
    /\ text_rows = << >>
    /\ rows = << >>
    /\ df = << >>
    /\ master = << >>
    /\ written = FALSE
    /\ error = ""
    /\ started = {}
    /\ finished = {}

TextIdle ==
    /\ tpc = "idle"
    /\ text = ""
    /\ raw_lines = << >>
    /\ i = 0
    /\ stitched = << >>
    /\ k = 0
    /\ line_rows = << >>
    /\ out_rows = << >>

Init ==
    /\ input_exists \in BOOLEAN
    /\ pdf_files \in SeqsUpTo(DocSamples, MaxDocs)
    /\ MainStart
    /\ TextIdle

(***************************************************************************)
(* main()                                                                  *)
(***************************************************************************)
\* `if not pdf_files`
NoPdfs(files) == files = << >>

\* NoRows with the test left out
NoRows_NotTested(rs) == FALSE

\* `if not rows`
NoRows(rs) == rs = << >>

Fatal(exc) ==
    /\ pc' = "fatal"
    /\ error' = exc

\* if not INPUT_DIR.exists(): raise FileNotFoundError
CheckInputDir ==
    /\ pc = "start"
    /\ IF ~input_exists
       THEN Fatal("FileNotFoundError: Missing folder")
       ELSE pc' = "list" /\ error' = error
    /\ UNCHANGED << input_exists, pdf_files, output_dir, doc, page_num, all_rows,
                    table_rows, text_ran, text_rows, rows, df, master, written,
                    started, finished, textVars >>

\* OUTPUT_DIR.mkdir(...); pdf_files = sorted(...); if not pdf_files: raise
ListPdfs ==
    /\ pc = "list"
    /\ output_dir' = TRUE
    /\ IF NoPdfs(pdf_files)
       THEN Fatal("FileNotFoundError: No PDFs found.") /\ doc' = doc
       ELSE pc' = "read" /\ doc' = 1 /\ error' = error
    /\ UNCHANGED << input_exists, pdf_files, page_num, all_rows, table_rows,
                    text_ran, text_rows, rows, df, master, written, started,
                    finished, textVars >>

\* extract_pdf(pdf_path) is entered: all_rows = []
ReadPdf ==
    /\ pc = "read"
    /\ all_rows' = << >>
    /\ page_num' = 1
    /\ started' = started \cup {doc}
    /\ pc' = IF Len(pdf_files[doc]) = 0 THEN "return" ELSE "page"
    /\ UNCHANGED << input_exists, pdf_files, output_dir, doc, table_rows, text_ran,
                    text_rows, rows, df, master, written, error, finished, textVars >>

\* one iteration of the page loop of extract_pdf
ExtractPage ==
    /\ pc = "page"
    /\ LET page == pdf_files[doc][page_num]
           t    == extract_rows_from_table(page.table, Stem(doc))
           x    == IF NeedsTextFallback(t)
                   THEN extract_rows_from_text(page.text, Stem(doc))
                   ELSE << >>
       IN  /\ table_rows' = t
           /\ text_ran' = NeedsTextFallback(t)
           /\ text_rows' = x
           /\ all_rows' = all_rows \o t \o x
    /\ page_num' = page_num + 1
    /\ pc' = IF page_num = Len(pdf_files[doc]) THEN "return" ELSE "page"
    /\ UNCHANGED << input_exists, pdf_files, output_dir, doc, rows, df, master,
                    written, error, started, finished, textVars >>

\* extract_pdf returns; rows.extend(...); the next document, or `if not rows`
ReturnRows ==
    /\ pc = "return"
    /\ rows' = rows \o all_rows
    /\ finished' = finished \cup {doc}
    /\ IF doc < Len(pdf_files)
       THEN doc' = doc + 1 /\ pc' = "read" /\ error' = error
       ELSE /\ doc' = doc
            /\ IF NoRows(rows \o all_rows)
               THEN Fatal("RuntimeError: No rows extracted.")
               ELSE pc' = "aggregate" /\ error' = error
    /\ UNCHANGED << input_exists, pdf_files, output_dir, page_num, all_rows,
                    table_rows, text_ran, text_rows, df, master, written, started,
                    textVars >>

\* df = pd.DataFrame(rows); master = df.groupby(...).agg(...)
Aggregate ==
    /\ pc = "aggregate"
    /\ df' = rows
    /\ master' = GroupBy(rows)
    /\ pc' = "sort"
    /\ UNCHANGED << input_exists, pdf_files, output_dir, doc, page_num, all_rows,
                    table_rows, text_ran, text_rows, rows, written, error, started,
                    finished, textVars >>

\* the helper columns and sort_values; size_to_float may raise IndexError
SortMaster ==
    /\ pc = "sort"
    /\ IF \E n \in 1..Len(master) : SizeRaises(master[n].size)
       THEN Fatal("IndexError: list index out of range") /\ master' = master
       ELSE master' = sort_values(master) /\ pc' = "write" /\ error' = error
    /\ UNCHANGED << input_exists, pdf_files, output_dir, doc, page_num, all_rows,
                    table_rows, text_ran, text_rows, rows, df, written, started,
                    finished, textVars >>

\* with pd.ExcelWriter(OUTPUT_FILE, ...): both sheets are written
WriteOutput ==
    /\ pc = "write"
    /\ written' = TRUE
    /\ pc' = "done"
    /\ UNCHANGED << input_exists, pdf_files, output_dir, doc, page_num, all_rows,
                    table_rows, text_ran, text_rows, rows, df, master, error,
                    started, finished, textVars >>

Next ==
    \/ CheckInputDir
    \/ ListPdfs
    \/ ReadPdf
    \/ ExtractPage
    \/ ReturnRows
    \/ Aggregate
    \/ SortMaster
    \/ WriteOutput

Spec == Init /\ [][Next]_vars

(***************************************************************************)
(* extract_rows_from_text(text, source_name), statement by statement       *)
(***************************************************************************)
TextInit ==
    /\ input_exists = TRUE
    /\ pdf_files = << >>
    /\ MainStart
    /\ tpc = "call"
    /\ text \in { Join("\n", ls) : ls \in SeqsUpTo(LineSamples, MaxLines) }
    /\ raw_lines = << >>
    /\ i = 0
    /\ stitched = << >>
    /\ k = 0
    /\ line_rows = << >>
    /\ out_rows = << >>

\* `if not text: return rows`, else raw_lines = text.splitlines()
TextSplit ==
    /\ tpc = "call"
    /\ IF text = ""
       THEN tpc' = "done" /\ raw_lines' = raw_lines /\ i' = i
       ELSE tpc' = "stitch" /\ raw_lines' = SplitLines(text) /\ i' = 1
    /\ UNCHANGED << mainVars, text, stitched, k, line_rows, out_rows >>

\* one iteration of the while loop of stitch_wrapped_lines
StitchIter ==
    /\ tpc = "stitch"
    /\ i <= Len(raw_lines)
    /\ LET step == StitchStep(raw_lines, i, stitched)
       IN  i' = step[1] /\ stitched' = step[2]
    /\ UNCHANGED << mainVars, tpc, text, raw_lines, k, line_rows, out_rows >>

\* `return stitched`
StitchReturn ==
    /\ tpc = "stitch"
    /\ i > Len(raw_lines)
    /\ tpc' = "segment"
    /\ k' = 1
    /\ UNCHANGED << mainVars, text, raw_lines, i, stitched, line_rows, out_rows >>

\* one iteration of `for line in lines`
SegmentLine ==
    /\ tpc = "segment"
    /\ k <= Len(stitched)
    /\ line_rows' = TextLine(stitched[k], "doc1")
    /\ out_rows' = out_rows \o line_rows'
    /\ k' = k + 1
    /\ UNCHANGED << mainVars, tpc, text, raw_lines, i, stitched >>

\* `return rows`
TextReturn ==
    /\ tpc = "segment"
    /\ k > Len(stitched)
    /\ tpc' = "done"
    /\ UNCHANGED << mainVars, text, raw_lines, i, stitched, k, line_rows, out_rows >>

TextNext ==
    \/ TextSplit
    \/ StitchIter
    \/ StitchReturn
    \/ SegmentLine
    \/ TextReturn

TextSpec == TextInit /\ [][TextNext]_vars

(***************************************************************************)
(* Properties of the run of main()                                         *)
(***************************************************************************)
Aggregated == pc \in {"sort", "write", "done"}

Sorted == pc \in {"write", "done"}

\* the pages of the current document that have been read
PagesRead == IF pc \in {"page", "return"} THEN page_num - 1 ELSE 0

LastPage == pdf_files[doc][PagesRead]

\* C1: after aggregation no two rows of the master list share an item_key,
\* also when the contributing raw records differ only in letter case.
C1_OneRowPerItemKey ==
    Aggregated =>
        \A m, n \in 1..Len(master) :
            master[m].item_key = master[n].item_key => m = n

RECURSIVE SumOfItemKey(_, _)
SumOfItemKey(rs, key) ==
    IF rs = << >> THEN 0
    ELSE (IF Head(rs).item_key = key THEN Head(rs).quantity ELSE 0)
         + SumOfItemKey(Tail(rs), key)

\* C2: the quantity the master list reports for an item_key is the sum of the
\* quantities of all raw records with that item_key, whatever their order and
\* their distribution over the documents.
C2_MasterQuantityIsSum ==
    Aggregated =>
        /\ \A n \in 1..Len(master) :
               master[n].quantity = SumOfItemKey(rows, master[n].item_key)
        /\ \A n \in 1..Len(rows) :
               \E m \in 1..Len(master) : master[m].item_key = rows[n].item_key

\* the header cells of a grid, normalized and lower-cased
ClaimedHeader(t) == [c \in 1..Len(t[1]) |-> Lower(normalize_text(t[1][c]))]

ClaimedColumns(t, name) ==
    { c \in 1..Len(t[1]) : Contains(name, ClaimedHeader(t)[c]) }

ClaimedRejected(t) ==
    \/ Len(t) < 2
    \/ \A name \in HEADER_HINTS : ClaimedColumns(t, name) = {}
    \/ \E name \in HEADER_HINTS : ClaimedColumns(t, name) = {}

ClaimedValidRow(t, r) ==
    LET col(name) == CHOOSE c \in ClaimedColumns(t, name) :
                        \A d \in ClaimedColumns(t, name) : c <= d
    IN  /\ Len(r) >= Max({ col(name) : name \in HEADER_HINTS })
        /\ normalize_text(r[col("quantity")]) # ""
        /\ normalize_text(r[col("units")]) # ""
        /\ normalize_text(r[col("description")]) # ""
        /\ IsFloat(normalize_text(r[col("quantity")]))

\* C3: a grid is rejected exactly when it has fewer than 2 rows, or no header
\* cell contains a hint token, or a field has no header cell containing its
\* name; an accepted grid yields one record for every valid data row.
C3_TableRejectedExactlyWhen ==
    PagesRead > 0 =>
        IF ClaimedRejected(LastPage.table)
        THEN table_rows = << >>
        ELSE Len(table_rows) =
                Cardinality({ n \in 2..Len(LastPage.table) :
                                ClaimedValidRow(LastPage.table, LastPage.table[n]) })

\* C4: size_to_float returns a number for every size and never raises, so the
\* sort step never aborts a run that has produced raw records.
C4_SizeToFloatNeverRaises ==
    /\ \A n \in 1..Len(rows) : ~SizeRaises(rows[n].size)
    /\ rows # << >> => pc # "fatal"

\* C6: every raw record emitted by either extractor has a quantity that is
\* zero or positive.
C6_QuantityNotNegative ==
    /\ \A n \in 1..Len(table_rows) : table_rows[n].quantity >= 0
    /\ \A n \in 1..Len(text_rows) : text_rows[n].quantity >= 0

ClaimedRank(units) ==
    CASE Upper(units) = "LF" -> 0
      [] Upper(units) = "EA" -> 1
      [] OTHER -> 99

C8_RunOrder ==
    /\ started # {} => /\ input_exists
                       /\ pdf_files # << >>
                       /\ pc \notin {"start", "list"}
    /\ written => /\ finished = 1..Len(pdf_files)
                  /\ rows # << >>
    /\ (~input_exists \/ pdf_files = << >>) => started = {} /\ ~written
    /\ ( /\ pc \in {"aggregate", "sort", "write", "done", "fatal"}
         /\ (~input_exists \/ pdf_files = << >> \/ rows = << >>) )
       => pc = "fatal" /\ ~written

\* a run that read two documents and wrote its output
C8_Witness ==
    /\ pc = "done"
    /\ written
    /\ Cardinality(finished) >= 2

RECURSIVE ClaimedDocRows(_, _, _)
ClaimedDocRows(pages, n, source) ==
    IF n = 0 THEN << >>
    ELSE LET t == extract_rows_from_table(pages[n].table, source)
         IN  ClaimedDocRows(pages, n - 1, source)
             \o t
             \o (IF Len(t) < 2 THEN extract_rows_from_text(pages[n].text, source)
                 ELSE << >>)

\* C10: the text extractor runs for a page exactly when the table extractor
\* returned fewer than 2 records; the document's records are, page by page,
\* the table records followed by the text records, nothing removed.
C10_TextFallback ==
    /\ PagesRead > 0 => (text_ran <=> Len(table_rows) < 2)
    /\ pc \in {"page", "return"} =>
           all_rows = ClaimedDocRows(pdf_files[doc], PagesRead, Stem(doc))

\* a second page read after a page whose table gave one record and whose
\* text gave the same item again: the item is in all_rows twice
C10_Witness ==
    /\ PagesRead = 2
    /\ Len(extract_rows_from_table(pdf_files[doc][1].table, Stem(doc))) = 1
    /\ \E m, n \in 1..Len(all_rows) :
          /\ m < n
          /\ all_rows[m] = all_rows[n]

(***************************************************************************)
(* Properties of extract_rows_from_text                                    *)
(***************************************************************************)
Stitched == tpc \in {"segment", "done"}

\* exactly two tokens: a number, then EA or LF in any letter case
IsQuantityUnitLine(l) ==
    LET p == Split(normalize_text(l))
    IN  Len(p) = 2 /\ IsFloat(p[1]) /\ Upper(p[2]) \in {"EA", "LF"}

IsBlankLine(l) == normalize_text(l) = ""

\* the normalized lines, blank ones dropped
RECURSIVE NonBlankLines(_)
NonBlankLines(ls) ==
    IF ls = << >> THEN << >>
    ELSE (IF IsBlankLine(Head(ls)) THEN << >> ELSE << normalize_text(Head(ls)) >>)
         \o NonBlankLines(Tail(ls))

\* stitching over lines that are all non-blank
RECURSIVE StitchNonBlank(_)
StitchNonBlank(ls) ==
    IF ls = << >> THEN << >>
    ELSE IF IsQuantityUnitLine(ls[1]) /\ Len(ls) >= 2
    THEN << ls[1] \o " " \o ls[2] >> \o StitchNonBlank(Tail(Tail(ls)))
    ELSE << ls[1] >> \o StitchNonBlank(Tail(ls))

\* C5 as claimed: blank lines are dropped first, so a quantity/unit line is
\* merged with the next non-blank line even across blank lines.
C5_StitchAcrossBlankLines ==
    Stitched => stitched = StitchNonBlank(NonBlankLines(raw_lines))

\* stitching that looks only at the line that follows immediately
RECURSIVE StitchAdjacent(_)
StitchAdjacent(ls) ==
    IF ls = << >> THEN << >>
    ELSE IF IsBlankLine(ls[1]) THEN StitchAdjacent(Tail(ls))
    ELSE IF IsQuantityUnitLine(ls[1]) /\ Len(ls) >= 2 /\ ~IsBlankLine(ls[2])
    THEN << normalize_text(ls[1]) \o " " \o normalize_text(ls[2]) >>
         \o StitchAdjacent(Tail(Tail(ls)))
    ELSE << normalize_text(ls[1]) >> \o StitchAdjacent(Tail(ls))

\* C5 amended: a quantity/unit line is merged with the input line that
\* follows it immediately when that line is not blank, and both are consumed;
\* followed by a blank line or by no line it is kept once, unmerged; blank
\* lines are dropped and every other line is kept, normalized, in order.
C5_StitchAdjacentLine ==
    Stitched => stitched = StitchAdjacent(raw_lines)

\* a quantity/unit line, a blank line and a third line: the first is kept
\* unmerged and the third is kept as a line of its own
C5_Witness ==
    /\ tpc = "done"
    /\ Len(raw_lines) = 3
    /\ IsQuantityUnitLine(raw_lines[1])
    /\ IsBlankLine(raw_lines[2])
    /\ ~IsBlankLine(raw_lines[3])
    /\ stitched = << normalize_text(raw_lines[1]), normalize_text(raw_lines[3]) >>

\* a stitched line that passes the checks of the segmentation
ClaimedAccepted(line) ==
    LET p == Split(line)
    IN  /\ Len(p) >= 4
        /\ IsFloat(p[1])
        /\ Upper(p[2]) \in {"EA", "LF"}
        /\ ~StartsWith(Lower(line), "dkc -")
        /\ ~StartsWith(Lower(line), "quantity units")

\* the places (from 1) of the remainder tokens that equal or start with a marker
ClaimedMarkers(rem) ==
    { m \in 1..Len(rem) :
        LET low == Lower(rem[m])
        IN  \E n \in 1..Len(DESC_START_TOKENS) :
                \/ low = DESC_START_TOKENS[n]
                \/ StartsWith(low, DESC_START_TOKENS[n]) }

ClaimedSplit(line) ==
    LET p   == Split(line)
        rem == SubSeq(p, 3, Len(p))
        ms  == ClaimedMarkers(rem)
        m   == IF ms = {} THEN 1 ELSE CHOOSE a \in ms : \A b \in ms : a <= b
    IN  IF m = 1
        THEN [size |-> "", description |-> Join(" ", rem)]
        ELSE [size |-> Join(" ", SubSeq(rem, 1, m - 1)),
              description |-> Join(" ", SubSeq(rem, m, Len(rem)))]

\* C9: an accepted stitched line gives one record; without a marker, or with
\* the first marker on the first remainder token, its size is "" and its
\* description the whole remainder; else the size is the tokens before the
\* first marker and the description the tokens from it on.
C9_SizeDescriptionSplit ==
    (tpc \in {"segment", "done"} /\ k > 1 /\ ClaimedAccepted(stitched[k - 1]))
    => LET claimed == ClaimedSplit(stitched[k - 1])
       IN  /\ Len(line_rows) = 1
           /\ line_rows[1].size = claimed.size
           /\ line_rows[1].description = claimed.description

\* records from a line with a marker after the first remainder token, from a
\* line whose first remainder token is a marker, and from a line without marker
C9_Witness ==
    /\ tpc = "done"
    /\ Len(out_rows) = 3
    /\ \E a, b, c \in 1..Len(stitched) :
          /\ ClaimedAccepted(stitched[a])
          /\ ClaimedAccepted(stitched[b])
          /\ ClaimedAccepted(stitched[c])
          /\ ClaimedMarkers(SubSeq(Split(stitched[a]), 3, Len(Split(stitched[a])))) = {}
          /\ 1 \in ClaimedMarkers(SubSeq(Split(stitched[b]), 3, Len(Split(stitched[b]))))
          /\ ClaimedMarkers(SubSeq(Split(stitched[c]), 3, Len(Split(stitched[c]))))
                 \notin {{}, {1}}
          /\ 1 \notin ClaimedMarkers(SubSeq(Split(stitched[c]), 3, Len(Split(stitched[c]))))
          /\ \E n \in 1..Len(out_rows) : out_rows[n].size # ""

====
